---- MODULE Spec2Model ----
(***************************************************************************)
(* ScholarLens AI (Paper_Visualization): the App controller, its input     *)
(* dialog and the analysis workflow.                                       *)
(*                                                                         *)
(* The repository holds two controllers.  build = "inline" is src/App.tsx, *)
(* which renders the input dialog itself; build = "modal" is               *)
(* src/unnamed/part_003, which delegates the dialog to                     *)
(* src/components/InputModal.tsx.  One behaviour follows one of them.      *)
(*                                                                         *)
(* A handler runs to its next await as one step: no browser event can      *)
(* interleave with synchronous code or with the microtasks that follow it. *)
(***************************************************************************)
EXTENDS Integers, Sequences, FiniteSets, TLC

VARIABLES
    build,           \* which controller this behaviour runs
    scrolled,        \* useState(false)
    menuOpen,        \* useState(false)
    showInputModal,  \* useState(false)
    paperData,       \* useState(ALPHA_QUBIT_DATA): a JS object, field -> value
    isCustom,        \* useState(false)
    isAnalyzing,     \* useState(false)
    analysisStep,    \* useState('uploading')              (modal build)
    analysisError,   \* useState(null)                     (modal build)
    darkMode,        \* useState(false)
    inputText,       \* useState("")
    selectedFile,    \* useState(null)
    isDragOver,      \* useState(false)                    (InputModal)
    rootDark,        \* document.documentElement has the class 'dark'
    storedTheme,     \* localStorage 'theme', "null" when unset
    alertShown,      \* the window.alert raised by the latest step, or "null"
    pc,              \* where the running handleAnalyze is suspended
    run,             \* the running handleAnalyze: its arguments and locals
    stepTrace,       \* the setAnalysisStep calls of the latest run, in order
    requests,        \* generateContent calls issued by the latest run
    searchTerm,      \* useState("")                       (ConceptNetwork)
    activeId,        \* useState(null)                     (ConceptNetwork)
    discarded        \* a page reload has thrown away an analysed record

vars == <<build, scrolled, menuOpen, showInputModal, paperData, isCustom,
          isAnalyzing, analysisStep, analysisError, darkMode, inputText,
          selectedFile, isDragOver, rootDark, storedTheme, alertShown, pc, run,
          stepTrace, requests, searchTerm, activeId, discarded>>

----------------------------------------------------------------------------
(* JavaScript values *)

Null == "null"
Undefined == "undefined"

\* obj.f of a JS object held as a function from field names to values
Get(obj, f) == IF f \in DOMAIN obj THEN obj[f] ELSE Undefined

\* JS truthiness of a string-or-undefined value
Truthy(v) == v \notin {Undefined, Null, ""}

\* { ...a, ...b }
Spread(a, b) ==
    [f \in (DOMAIN a) \cup (DOMAIN b) |-> IF f \in DOMAIN b THEN b[f] ELSE a[f]]

\* the object a without the fields in fs
Without(obj, fs) == [f \in (DOMAIN obj) \ fs |-> obj[f]]

----------------------------------------------------------------------------
(* types.ts *)

PaperTheme == {"quantum", "ai", "biology", "cosmos", "material", "general"}

PaperFields == {"title", "subtitle", "journal", "introTitle", "summary",
                "authors", "theme", "concepts", "impact", "url"}

ALPHA_QUBIT_DATA ==
    [f \in PaperFields |->
        CASE f = "title" -> "AlphaQubit"
          [] f = "subtitle" -> "AI for Quantum Error Correction"
          [] f = "journal" -> "Nature - Nov 2024"
          [] f = "introTitle" -> "The Noise Barrier"
          [] f = "summary" -> "Building a large-scale quantum computer requires correcting the errors"
          [] f = "authors" -> << [name |-> "Johannes Bausch", role |-> "Google DeepMind"],
                                 [name |-> "Andrew W. Senior", role |-> "Google DeepMind"],
                                 [name |-> "Francisco J. H. Heras", role |-> "Google DeepMind"],
                                 [name |-> "Thomas Edlich", role |-> "Google DeepMind"],
                                 [name |-> "Michael Newman", role |-> "Google Quantum AI"] >>
          [] f = "theme" -> "quantum"
          [] f = "concepts" -> << >>
          [] f = "impact" -> "AlphaQubit maintains its advantage even as the code distance increases."
          [] f = "url" -> "https://doi.org/10.1038/s41586-024-08148-8"]

----------------------------------------------------------------------------
(* What the environment supplies: typed text, files, API responses *)

\* how many distinct papers the analysis endpoint answers about
NumPapers == 2

\* how many distinct PDF files the user has to choose from
NumPdfs == 1

\* texts the user types: nothing, blanks only, an abstract
Texts == {"", "  ", "We present a decoder ..."}

PdfNames == <<"paper.pdf", "draft.pdf", "thesis.pdf", "survey.pdf">>
Pdfs == {PdfNames[i] : i \in 1..NumPdfs}
OtherFiles == {"figure.png", "notes"}
Files == Pdfs \cup OtherFiles

\* File.type
FileType(file) ==
    CASE file \in Pdfs -> "application/pdf"
      [] file = "figure.png" -> "image/png"
      [] OTHER -> ""

\* FileReader.result after readAsDataURL, cut at its commas
ReadAsDataURL(file) ==
    << "data:" \o FileType(file) \o ";base64", "JVBERi0xLjQK" \o file >>

ResponseTitles == <<"Attention Is All You Need", "Base Editing of DNA", "The Dark Energy Survey", "Perovskite Solar Cells">>
ResponseFields == PaperFields \ {"url"}

\* a complete answer about paper i, as the response schema describes it
PaperObject(i, theme) ==
    [f \in ResponseFields |->
        CASE f = "title" -> ResponseTitles[i]
          [] f = "subtitle" -> "On " \o ResponseTitles[i]
          [] f = "journal" -> "Preprint of " \o ResponseTitles[i]
          [] f = "introTitle" -> "Why " \o ResponseTitles[i]
          [] f = "summary" -> "Summary of " \o ResponseTitles[i]
          [] f = "authors" -> << [name |-> "First author of " \o ResponseTitles[i], role |-> "Researcher"] >>
          [] f = "theme" -> theme
          [] f = "concepts" -> << [title |-> "Mechanism", description |-> "Core of " \o ResponseTitles[i], type |-> "process"],
                                  [title |-> "Structure", description |-> "Layout", type |-> "structure"] >>
          [] f = "impact" -> "Impact of " \o ResponseTitles[i]]

\* theme values an answer may carry: the enum, one outside it, none
ResponseThemes == PaperTheme \cup {"physics", Undefined}

\* fields an answer may leave out (the schema marks none as required)
Omissions == { {}, {"summary"}, {"authors"}, {"concepts"},
               ResponseFields \ {"title", "theme"} }

Answer(i, theme, omitted) ==
    Without(PaperObject(i, theme),
            omitted \cup (IF theme = Undefined THEN {"theme"} ELSE {}))

\* the JSON objects the endpoint may answer with: paper 1 with every theme,
\* the other papers, paper 1 with fields left out, with a url of its own,
\* without a title and with an empty title
ResponseObjects ==
    {Answer(1, th, {}) : th \in ResponseThemes}
    \cup {Answer(i, "biology", {}) : i \in 2..NumPapers}
    \cup {Answer(1, "ai", om) : om \in Omissions}
    \cup {Answer(1, Undefined, ResponseFields \ {"title", "theme"})}
    \cup {Spread(Answer(1, "cosmos", {}), [url |-> "https://example.org/paper"])}
    \cup {Without(Answer(1, "ai", {}), {"title"})}
    \cup {Spread(Answer(1, "ai", {}), [title |-> ""])}

\* response.text: absent, not JSON, JSON null, or a JSON object
ResponseTexts ==
    {[kind |-> "undefined"], [kind |-> "garbage"], [kind |-> "null"]}
    \cup {[kind |-> "object", object |-> o] : o \in ResponseObjects}

\* how ai.models.generateContent settles
ApiOutcomes ==
    {[settled |-> "rejected"]}
    \cup {[settled |-> "resolved", text |-> t] : t \in ResponseTexts}

\* JSON.parse(response.text || "{}")
JSONParse(text) ==
    CASE text.kind = "undefined" -> [threw |-> FALSE, isNull |-> FALSE, data |-> << >>]
      [] text.kind = "garbage" -> [threw |-> TRUE, isNull |-> FALSE, data |-> << >>]
      [] text.kind = "null" -> [threw |-> FALSE, isNull |-> TRUE, data |-> << >>]
      [] OTHER -> [threw |-> FALSE, isNull |-> FALSE, data |-> text.object]

----------------------------------------------------------------------------
(* Initial state: the useState initialisers of App and InputModal, and the *)
(* theme-initialisation effect that runs once on mount                      *)

\* localStorage.getItem('theme') before the page is loaded
StoredThemes == {Null, "dark", "light"}

\* fault variant: the system preference wins over a stored 'light'
InitialDarkMode_prefersFirst(savedTheme, prefersDark) ==
    savedTheme = "dark" \/ prefersDark

\* savedTheme === 'dark' || (!savedTheme && prefersDark)
InitialDarkMode(savedTheme, prefersDark) ==
    savedTheme = "dark" \/ (~Truthy(savedTheme) /\ prefersDark)

\* reset records that resetToDemo ran while this run was in flight
NoRun == [text |-> "", file |-> Null, payload |-> << >>, reset |-> FALSE]

\* activeId is number | null: << >> stands for null, <<idx>> for the index idx
NoCard == << >>

\* fault variant: the dialog starts open, useState(true)
Init_dialogOpen ==
    /\ build \in {"inline", "modal"}
    /\ scrolled = FALSE
    /\ menuOpen = FALSE
    /\ showInputModal = TRUE
    /\ paperData = ALPHA_QUBIT_DATA
    /\ isCustom = FALSE
    /\ isAnalyzing = FALSE
    /\ analysisStep = "uploading"
    /\ analysisError = Null
    /\ storedTheme \in StoredThemes
    /\ \E prefersDark \in BOOLEAN :
          /\ darkMode = InitialDarkMode(storedTheme, prefersDark)
          /\ rootDark = InitialDarkMode(storedTheme, prefersDark)
    /\ inputText = ""
    /\ selectedFile = Null
    /\ isDragOver = FALSE
    /\ alertShown = Null
    /\ pc = "idle"
    /\ run = NoRun
    /\ stepTrace = << >>
    /\ requests = 0
    /\ searchTerm = ""
    /\ activeId = NoCard
    /\ discarded = FALSE

Init ==
    /\ build \in {"inline", "modal"}
    /\ scrolled = FALSE
    /\ menuOpen = FALSE
    /\ showInputModal = FALSE
    /\ paperData = ALPHA_QUBIT_DATA
    /\ isCustom = FALSE
    /\ isAnalyzing = FALSE
    /\ analysisStep = "uploading"
    /\ analysisError = Null
    /\ storedTheme \in StoredThemes
    /\ \E prefersDark \in BOOLEAN :
          /\ darkMode = InitialDarkMode(storedTheme, prefersDark)
          /\ rootDark = InitialDarkMode(storedTheme, prefersDark)
    /\ inputText = ""
    /\ selectedFile = Null
    /\ isDragOver = FALSE
    /\ alertShown = Null
    /\ pc = "idle"
    /\ run = NoRun
    /\ stepTrace = << >>
    /\ requests = 0
    /\ searchTerm = ""
    /\ activeId = NoCard
    /\ discarded = FALSE

----------------------------------------------------------------------------
(* Page chrome: scrolling, menu, dark mode *)

appState == <<paperData, isCustom, isAnalyzing, analysisStep, analysisError>>
formState == <<inputText, selectedFile, isDragOver>>
themeState == <<darkMode, rootDark, storedTheme>>
runState == <<pc, run, stepTrace, requests>>

\* the state of the mounted ConceptNetwork, which no handler of App writes
network == <<searchTerm, activeId>>

\* window.scrollY values the scroll listener may see
ScrollPositions == {20, 21, 50, 51}

\* setScrolled(window.scrollY > 20) in part_003, > 50 in App.tsx
handleScroll(scrollY) ==
    /\ scrolled' = (scrollY > (IF build = "modal" THEN 20 ELSE 50))
    /\ alertShown' = Null
    /\ UNCHANGED <<build, network, discarded, menuOpen, showInputModal, appState, formState,
                   themeState, runState>>

\* the mobile menu button: setMenuOpen(!menuOpen)
toggleMenu ==
    /\ menuOpen' = ~menuOpen
    /\ alertShown' = Null
    /\ UNCHANGED <<build, network, discarded, scrolled, showInputModal, appState, formState,
                   themeState, runState>>

\* a navigation link: setMenuOpen(false), then scroll
scrollToSection ==
    /\ menuOpen' = FALSE
    /\ alertShown' = Null
    /\ UNCHANGED <<build, network, discarded, scrolled, showInputModal, appState, formState,
                   themeState, runState>>

\* fault variant: the new mode is not written to localStorage
toggleDarkMode_notStored ==
    /\ darkMode' = ~darkMode
    /\ rootDark' = ~darkMode
    /\ storedTheme' = storedTheme
    /\ alertShown' = Null
    /\ UNCHANGED <<build, network, discarded, scrolled, menuOpen, showInputModal,
                   appState, formState, runState>>

\* the sun / moon button
toggleDarkMode ==
    /\ darkMode' = ~darkMode
    /\ rootDark' = ~darkMode
    /\ storedTheme' = IF ~darkMode THEN "dark" ELSE "light"
    /\ alertShown' = Null
    /\ UNCHANGED <<build, network, discarded, scrolled, menuOpen, showInputModal, appState,
                   formState, runState>>

----------------------------------------------------------------------------
(* The input dialog *)

\* fault variant: InputModal without its loading view, the form stays up
FormShown_noLoadingView == showInputModal

\* the dialog's input form is rendered: InputModal returns null when hidden
\* and the loading view while isAnalyzing; App.tsx renders its form whenever
\* showInputModal
FormShown == showInputModal /\ (build = "modal" => ~isAnalyzing)

\* "New Paper" in the navigation bar and the footer button
onNewPaper ==
    /\ showInputModal' = TRUE
    /\ alertShown' = Null
    /\ UNCHANGED <<build, network, discarded, scrolled, menuOpen, appState, formState,
                   themeState, runState>>

\* "Visualize New Paper" in the mobile menu of Navigation
menuNewPaper ==
    /\ build = "modal"
    /\ menuOpen
    /\ menuOpen' = FALSE
    /\ showInputModal' = TRUE
    /\ alertShown' = Null
    /\ UNCHANGED <<build, network, discarded, scrolled, appState, formState, themeState, runState>>

\* the X button of the form
onClose ==
    /\ FormShown
    /\ showInputModal' = FALSE
    /\ alertShown' = Null
    /\ UNCHANGED <<build, network, discarded, scrolled, menuOpen, appState, formState,
                   themeState, runState>>

\* the textarea's onChange
setInputText(text) ==
    /\ FormShown
    /\ inputText' = text
    /\ alertShown' = Null
    /\ UNCHANGED <<build, network, discarded, scrolled, menuOpen, showInputModal, appState,
                   selectedFile, isDragOver, themeState, runState>>

PdfAlert == "Please upload a PDF file."

\* fault variant: the MIME type test left out
validateAndSetFile_anyType(file) ==
    /\ selectedFile' = IF file # Undefined THEN file ELSE selectedFile
    /\ alertShown' = Null

\* validateAndSetFile of InputModal, the body of handleFileSelect in App.tsx;
\* file is files?.[0], Undefined when the list is empty
validateAndSetFile(file) ==
    /\ selectedFile' = IF file # Undefined /\ FileType(file) = "application/pdf"
                       THEN file ELSE selectedFile
    /\ alertShown' = IF file # Undefined /\ FileType(file) # "application/pdf"
                     THEN PdfAlert ELSE Null

handleFileSelect(file) ==
    /\ FormShown
    /\ validateAndSetFile(file)
    /\ UNCHANGED <<build, network, discarded, scrolled, menuOpen, showInputModal, appState,
                   inputText, isDragOver, themeState, runState>>

handleDrop(file) ==
    /\ build = "modal"
    /\ FormShown
    /\ isDragOver' = FALSE
    /\ validateAndSetFile(file)
    /\ UNCHANGED <<build, network, discarded, scrolled, menuOpen, showInputModal, appState,
                   inputText, themeState, runState>>

\* onDragOver / onDragLeave of the upload area
setIsDragOver(over) ==
    /\ build = "modal"
    /\ FormShown
    /\ isDragOver' = over
    /\ alertShown' = Null
    /\ UNCHANGED <<build, network, discarded, scrolled, menuOpen, showInputModal, appState,
                   inputText, selectedFile, themeState, runState>>

\* "Remove File", rendered while a file is selected
removeFile ==
    /\ FormShown
    /\ selectedFile # Null
    /\ selectedFile' = Null
    /\ alertShown' = Null
    /\ UNCHANGED <<build, network, discarded, scrolled, menuOpen, showInputModal, appState,
                   inputText, isDragOver, themeState, runState>>

----------------------------------------------------------------------------
(* handleAnalyze *)

RECURSIVE TrimStart(_)
TrimStart(s) ==
    IF Len(s) > 0 /\ SubSeq(s, 1, 1) = " " THEN TrimStart(SubSeq(s, 2, Len(s))) ELSE s

RECURSIVE TrimEnd(_)
TrimEnd(s) ==
    IF Len(s) > 0 /\ SubSeq(s, Len(s), Len(s)) = " "
    THEN TrimEnd(SubSeq(s, 1, Len(s) - 1)) ELSE s

\* String.prototype.trim
Trim(s) == TrimEnd(TrimStart(s))

\* fault variant: the text is sent whole, without substring
Substring0_whole(s, n) == s

\* text.substring(0, n)
Substring0(s, n) == SubSeq(s, 1, IF Len(s) < n THEN Len(s) ELSE n)

\* the cut applied to pasted text when no file is sent
PaperTextLimit == 30000

\* promptInstructions (abridged) and the heading put before the user's text
PromptInstructions ==
    IF build = "modal" THEN "Analyze the provided research paper (text or PDF)."
    ELSE "Analyze the provided research paper (either text or PDF)."
NotesHeading ==
    IF build = "modal" THEN "\n\nUser Notes: " ELSE "\n\nAdditional user notes: "
TextHeading ==
    IF build = "modal" THEN "\n\nPaper Text:\n" ELSE "\n\nPaper Text to analyze:\n"

\* contentsPayload when a file is sent, base64Data being the encoded file
FilePayload(base64Data, text) ==
    << [inlineData |-> [mimeType |-> "application/pdf", data |-> base64Data]],
       [text |-> PromptInstructions \o NotesHeading \o text] >>

\* contentsPayload when only text is sent
TextPayload(text) ==
    << [text |-> PromptInstructions \o TextHeading \o Substring0(text, PaperTextLimit)] >>

\* fileToBase64 on load: result.split(',')[1]
Base64Of(file) == ReadAsDataURL(file)[2]

AnalysisFailedMessage ==
    "Failed to analyze the document. The PDF might be corrupted, too large, or password protected. Please try again."
AnalyzeAlert ==
    "Could not analyze text. Please try again. If uploading a large PDF, ensure your network is stable."

\* the Visualize button's disabled attribute
VisualizeDisabled ==
    \/ build = "inline" /\ isAnalyzing
    \/ inputText = "" /\ selectedFile = Null

\* fault variant: the catch block without the finally block
catchAndFinally_noFinally ==
    /\ analysisError' = IF build = "modal" THEN AnalysisFailedMessage ELSE analysisError
    /\ alertShown' = IF build = "inline" THEN AnalyzeAlert ELSE Null
    /\ isAnalyzing' = TRUE
    /\ pc' = "idle"
    /\ run' = NoRun

\* catch { ... } finally { setIsAnalyzing(false) }: part_003 sets
\* analysisError, App.tsx alerts
catchAndFinally ==
    /\ analysisError' = IF build = "modal" THEN AnalysisFailedMessage ELSE analysisError
    /\ alertShown' = IF build = "inline" THEN AnalyzeAlert ELSE Null
    /\ isAnalyzing' = FALSE
    /\ pc' = "idle"
    /\ run' = NoRun

\* fault variant: handleAnalyze without setAnalysisError(null)
handleAnalyze_keepsError(sdkThrows) ==
    /\ FormShown
    /\ ~VisualizeDisabled
    /\ IF build = "inline" /\ Trim(inputText) = "" /\ selectedFile = Null
       THEN \* if (!inputText.trim() && !selectedFile) return;
            /\ alertShown' = Null
            /\ UNCHANGED <<appState, runState>>
       ELSE IF sdkThrows
       THEN /\ catchAndFinally
            /\ analysisStep' = "uploading"
            /\ stepTrace' = IF build = "modal" THEN <<"uploading">> ELSE << >>
            /\ requests' = 0
            /\ UNCHANGED <<paperData, isCustom>>
       ELSE /\ isAnalyzing' = TRUE
            /\ analysisError' = analysisError
            /\ alertShown' = Null
            /\ UNCHANGED <<paperData, isCustom>>
            /\ IF selectedFile # Null
               THEN \* await fileToBase64(file)
                    /\ pc' = "reading"
                    /\ run' = [text |-> inputText, file |-> selectedFile, payload |-> << >>,
                            reset |-> FALSE]
                    /\ analysisStep' = IF build = "modal" THEN "reading" ELSE analysisStep
                    /\ stepTrace' = IF build = "modal" THEN <<"uploading", "reading">> ELSE << >>
                    /\ requests' = 0
               ELSE /\ run' = [text |-> inputText, file |-> Null,
                            payload |-> TextPayload(inputText), reset |-> FALSE]
                    /\ IF build = "modal"
                       THEN \* await new Promise(r => setTimeout(r, 800))
                            /\ pc' = "delay"
                            /\ analysisStep' = "analyzing"
                            /\ stepTrace' = <<"uploading", "reading", "analyzing">>
                            /\ requests' = 0
                       ELSE \* await ai.models.generateContent(...)
                            /\ pc' = "calling"
                            /\ UNCHANGED analysisStep
                            /\ stepTrace' = << >>
                            /\ requests' = 1
    /\ UNCHANGED <<build, network, discarded, scrolled, menuOpen, showInputModal, formState, themeState>>

\* the click on Visualize, up to the first await.  sdkThrows: whether
\* new GoogleGenAI({ apiKey }) throws (it does without an API key)
handleAnalyze(sdkThrows) ==
    /\ FormShown
    /\ ~VisualizeDisabled
    /\ IF build = "inline" /\ Trim(inputText) = "" /\ selectedFile = Null
       THEN \* if (!inputText.trim() && !selectedFile) return;
            /\ alertShown' = Null
            /\ UNCHANGED <<appState, runState>>
       ELSE IF sdkThrows
       THEN /\ catchAndFinally
            /\ analysisStep' = "uploading"
            /\ stepTrace' = IF build = "modal" THEN <<"uploading">> ELSE << >>
            /\ requests' = 0
            /\ UNCHANGED <<paperData, isCustom>>
       ELSE /\ isAnalyzing' = TRUE
            /\ analysisError' = Null
            /\ alertShown' = Null
            /\ UNCHANGED <<paperData, isCustom>>
            /\ IF selectedFile # Null
               THEN \* await fileToBase64(file)
                    /\ pc' = "reading"
                    /\ run' = [text |-> inputText, file |-> selectedFile, payload |-> << >>,
                            reset |-> FALSE]
                    /\ analysisStep' = IF build = "modal" THEN "reading" ELSE analysisStep
                    /\ stepTrace' = IF build = "modal" THEN <<"uploading", "reading">> ELSE << >>
                    /\ requests' = 0
               ELSE /\ run' = [text |-> inputText, file |-> Null,
                            payload |-> TextPayload(inputText), reset |-> FALSE]
                    /\ IF build = "modal"
                       THEN \* await new Promise(r => setTimeout(r, 800))
                            /\ pc' = "delay"
                            /\ analysisStep' = "analyzing"
                            /\ stepTrace' = <<"uploading", "reading", "analyzing">>
                            /\ requests' = 0
                       ELSE \* await ai.models.generateContent(...)
                            /\ pc' = "calling"
                            /\ UNCHANGED analysisStep
                            /\ stepTrace' = << >>
                            /\ requests' = 1
    /\ UNCHANGED <<build, network, discarded, scrolled, menuOpen, showInputModal, formState, themeState>>

\* fault variant: a read error is swallowed and the run goes on without the data
fileReadSettles_ignoresError(loaded) ==
    /\ pc = "reading"
    /\ run' = [run EXCEPT !.payload =
                  FilePayload(IF loaded THEN Base64Of(run.file) ELSE Undefined, run.text)]
    /\ alertShown' = Null
    /\ UNCHANGED <<paperData, isCustom, isAnalyzing, analysisError>>
    /\ IF build = "modal"
       THEN /\ pc' = "delay"
            /\ analysisStep' = "analyzing"
            /\ stepTrace' = Append(stepTrace, "analyzing")
            /\ UNCHANGED requests
       ELSE /\ pc' = "calling"
            /\ requests' = requests + 1
            /\ UNCHANGED <<analysisStep, stepTrace>>
    /\ UNCHANGED <<build, network, discarded, scrolled, menuOpen, showInputModal, formState, themeState>>

\* the FileReader settles: onload resolves with the base64 part, onerror rejects
fileReadSettles(loaded) ==
    /\ pc = "reading"
    /\ IF loaded
       THEN /\ run' = [run EXCEPT !.payload = FilePayload(Base64Of(run.file), run.text)]
            /\ alertShown' = Null
            /\ UNCHANGED <<paperData, isCustom, isAnalyzing, analysisError>>
            /\ IF build = "modal"
               THEN /\ pc' = "delay"
                    /\ analysisStep' = "analyzing"
                    /\ stepTrace' = Append(stepTrace, "analyzing")
                    /\ UNCHANGED requests
               ELSE /\ pc' = "calling"
                    /\ requests' = requests + 1
                    /\ UNCHANGED <<analysisStep, stepTrace>>
       ELSE /\ catchAndFinally
            /\ UNCHANGED <<paperData, isCustom, analysisStep, stepTrace, requests>>
    /\ UNCHANGED <<build, network, discarded, scrolled, menuOpen, showInputModal, formState, themeState>>

\* fault variant: the request goes out without setAnalysisStep('generating')
delayElapsed_noGenerating ==
    /\ pc = "delay"
    /\ requests' = requests + 1
    /\ pc' = "calling"
    /\ alertShown' = Null
    /\ UNCHANGED <<build, network, discarded, scrolled, menuOpen, showInputModal, paperData, isCustom,
                   isAnalyzing, analysisStep, analysisError, formState, themeState,
                   run, stepTrace>>

\* part_003: the 800 ms timer fires; the request is issued
delayElapsed ==
    /\ pc = "delay"
    /\ analysisStep' = "generating"
    /\ stepTrace' = Append(stepTrace, "generating")
    /\ requests' = requests + 1
    /\ pc' = "calling"
    /\ alertShown' = Null
    /\ UNCHANGED <<build, network, discarded, scrolled, menuOpen, showInputModal, paperData, isCustom,
                   isAnalyzing, analysisError, formState, themeState, run>>

\* fault variant: data.theme taken as it comes
ValidTheme_unchecked(data) == Get(data, "theme")

\* part_003: ['quantum', 'ai', 'biology', 'cosmos', 'material'].includes(data.theme)
\*           ? data.theme : 'general'
ValidTheme(data) ==
    IF Get(data, "theme") \in {"quantum", "ai", "biology", "cosmos", "material"}
    THEN data.theme ELSE "general"

\* fault variant: the url override left out of the object
NewPaperData_keepsUrl(data) ==
    IF build = "modal"
    THEN Spread(data, [theme |-> ValidTheme(data)])
    ELSE data

\* the object handed to setPaperData
NewPaperData(data) ==
    IF build = "modal"
    THEN Spread(data, [theme |-> ValidTheme(data), url |-> "#"])
    ELSE Spread(data, [url |-> "#"])

\* fault variant: setShowInputModal(false) left out after a success
applyAnalysis_keepsDialogOpen(data) ==
    /\ paperData' = NewPaperData(data)
    /\ isCustom' = TRUE
    /\ isAnalyzing' = FALSE
    /\ alertShown' = Null
    /\ pc' = "idle"
    /\ run' = NoRun
    /\ UNCHANGED <<showInputModal, analysisError>>

\* fault variant: setIsCustom(true) left out after setPaperData
applyAnalysis_keepsDemoFlag(data) ==
    /\ paperData' = NewPaperData(data)
    /\ showInputModal' = FALSE
    /\ isAnalyzing' = FALSE
    /\ alertShown' = Null
    /\ pc' = "idle"
    /\ run' = NoRun
    /\ UNCHANGED <<isCustom, analysisError>>

\* the statements after a response with a title: the record is replaced
applyAnalysis(data) ==
    /\ paperData' = NewPaperData(data)
    /\ isCustom' = TRUE
    /\ showInputModal' = FALSE
    /\ isAnalyzing' = FALSE
    /\ alertShown' = Null
    /\ pc' = "idle"
    /\ run' = NoRun
    /\ UNCHANGED analysisError

\* fault variant: setIsCustom(true) moved out of the if (data.title) block
ignoreAnalysis_setsCustom ==
    /\ isAnalyzing' = FALSE
    /\ alertShown' = Null
    /\ pc' = "idle"
    /\ run' = NoRun
    /\ isCustom' = TRUE
    /\ UNCHANGED <<paperData, showInputModal, analysisError>>

\* App.tsx: if (data.title) { ... } has no else; only finally runs
ignoreAnalysis ==
    /\ isAnalyzing' = FALSE
    /\ alertShown' = Null
    /\ pc' = "idle"
    /\ run' = NoRun
    /\ UNCHANGED <<paperData, isCustom, showInputModal, analysisError>>

\* whether the code after the await reaches setPaperData for this outcome
Accepted(outcome) ==
    /\ outcome.settled = "resolved"
    /\ ~JSONParse(outcome.text).threw
    /\ ~JSONParse(outcome.text).isNull
    /\ Truthy(Get(JSONParse(outcome.text).data, "title"))

\* fault variant: part_003 without its throw on a missing title
Thrown_noTitleCheck(outcome) ==
    \/ outcome.settled = "rejected"
    \/ JSONParse(outcome.text).threw
    \/ JSONParse(outcome.text).isNull

\* whether control reaches the catch block: the call rejected, JSON.parse
\* threw, data is null (data.title throws), or part_003 threw on a missing title
Thrown(outcome) ==
    \/ outcome.settled = "rejected"
    \/ JSONParse(outcome.text).threw
    \/ JSONParse(outcome.text).isNull
    \/ build = "modal" /\ ~Truthy(Get(JSONParse(outcome.text).data, "title"))

\* fault variant: a failed request is issued once more before giving up
apiSettles_retriesOnce(outcome) ==
    /\ pc = "calling"
    /\ IF Thrown(outcome) /\ requests < 2
       THEN /\ requests' = requests + 1
            /\ alertShown' = Null
            /\ UNCHANGED <<appState, showInputModal, pc, run>>
       ELSE /\ UNCHANGED requests
            /\ IF Thrown(outcome)
               THEN catchAndFinally /\ UNCHANGED <<paperData, isCustom, showInputModal>>
               ELSE IF Accepted(outcome)
               THEN applyAnalysis(JSONParse(outcome.text).data)
               ELSE ignoreAnalysis
    /\ UNCHANGED <<build, network, discarded, scrolled, menuOpen, analysisStep, formState, themeState,
                   stepTrace>>

\* generateContent settles and the rest of handleAnalyze runs
apiSettles(outcome) ==
    /\ pc = "calling"
    /\ IF Thrown(outcome)
       THEN catchAndFinally /\ UNCHANGED <<paperData, isCustom, showInputModal>>
       ELSE IF Accepted(outcome)
       THEN applyAnalysis(JSONParse(outcome.text).data)
       ELSE ignoreAnalysis
    /\ UNCHANGED <<build, network, discarded, scrolled, menuOpen, analysisStep, formState, themeState,
                   stepTrace, requests>>

\* fault variant: setIsCustom(false) left out of the reset
resetToDemo_keepsCustom ==
    /\ FormShown
    /\ paperData' = ALPHA_QUBIT_DATA
    /\ showInputModal' = FALSE
    /\ IF build = "inline"
       THEN selectedFile' = Null /\ inputText' = ""
       ELSE UNCHANGED <<selectedFile, inputText>>
    /\ alertShown' = Null
    /\ run' = IF pc # "idle" THEN [run EXCEPT !.reset = TRUE] ELSE run
    /\ UNCHANGED <<build, network, discarded, scrolled, menuOpen, isCustom, isAnalyzing, analysisStep,
                   analysisError, isDragOver, themeState, pc, stepTrace, requests>>

\* "Load Demo (AlphaQubit)" / "View AlphaQubit Demo"
resetToDemo ==
    /\ FormShown
    /\ paperData' = ALPHA_QUBIT_DATA
    /\ isCustom' = FALSE
    /\ showInputModal' = FALSE
    /\ IF build = "inline"
       THEN selectedFile' = Null /\ inputText' = ""
       ELSE UNCHANGED <<selectedFile, inputText>>
    /\ alertShown' = Null
    /\ run' = IF pc # "idle" THEN [run EXCEPT !.reset = TRUE] ELSE run
    /\ UNCHANGED <<build, network, discarded, scrolled, menuOpen, isAnalyzing, analysisStep, analysisError,
                   isDragOver, themeState, pc, stepTrace, requests>>

----------------------------------------------------------------------------

Next ==
    \/ \E y \in ScrollPositions : handleScroll(y)
    \/ toggleMenu
    \/ scrollToSection
    \/ toggleDarkMode
    \/ onNewPaper
    \/ menuNewPaper
    \/ onClose
    \/ \E t \in Texts : setInputText(t)
    \/ \E f \in Files \cup {Undefined} : handleFileSelect(f)
    \/ \E f \in Files \cup {Undefined} : handleDrop(f)
    \/ \E over \in BOOLEAN : setIsDragOver(over)
    \/ removeFile
    \/ \E sdkThrows \in BOOLEAN : handleAnalyze(sdkThrows)
    \/ \E loaded \in BOOLEAN : fileReadSettles(loaded)
    \/ delayElapsed
    \/ \E o \in ApiOutcomes : apiSettles(o)
    \/ resetToDemo

Spec == Init /\ [][Next]_vars

\* the model holds one run: a second click is impossible while one is in flight
OneRun == (pc # "idle") <=> isAnalyzing

----------------------------------------------------------------------------
(* Properties *)

\* a step in which handleAnalyze reaches setPaperData
analysisSucceeds == \E o \in ApiOutcomes : Accepted(o) /\ apiSettles(o)

\* a step in which a run of handleAnalyze ends
analysisEnds ==
    \/ pc # "idle" /\ pc' = "idle"
    \/ pc = "idle" /\ handleAnalyze(TRUE)

\* what InputModal renders
InputModalView ==
    IF ~showInputModal THEN "hidden" ELSE IF isAnalyzing THEN "loading" ELSE "form"

\* the red banner of the form: {error && ...}
ErrorBannerShown == InputModalView = "form" /\ Truthy(analysisError)

\* C1: paperData and isCustom change only in a step that is the successful
\* completion of handleAnalyze or resetToDemo; every other step (dialog,
\* file, text, dark mode, menu, scroll, a failed analysis) leaves both unchanged.
C1_RecordChangesOnlyBySuccessOrReset ==
    [][(paperData' # paperData \/ isCustom' # isCustom)
          => (analysisSucceeds \/ resetToDemo)]_vars

\* C1 witness: an analysed record is displayed and the latest step, a
\* rejected file selection, left it in place.
C1_Witness ==
    /\ isCustom
    /\ paperData # ALPHA_QUBIT_DATA
    /\ alertShown = PdfAlert
    /\ menuOpen /\ scrolled

\* C2 (as claimed): a response with a non-empty title replaces the record by
\* exactly the response's fields, with theme validated and url "#"; nothing
\* of the old record is kept; isCustom becomes true and the dialog closes.
C2_WholesaleReplacement ==
    [][(pc = "calling" /\ pc' = "idle") =>
       \A o \in ApiOutcomes :
          (Accepted(o) /\ apiSettles(o)) =>
             LET data == JSONParse(o.text).data IN
             /\ DOMAIN paperData' = (DOMAIN data) \cup {"theme", "url"}
             /\ \A f \in (DOMAIN data) \ {"theme", "url"} : paperData'[f] = data[f]
             /\ paperData'.url = "#"
             /\ paperData'.theme \in PaperTheme
             /\ Get(data, "theme") \in PaperTheme => paperData'.theme = data.theme
             /\ isCustom'
             /\ ~showInputModal']_vars

\* C3: in part_003 every analysis that ends without replacing the record sets
\* analysisError to the one fixed message, and the form shows it.
C3_FailureSetsGenericError ==
    [][(build = "modal" /\ pc' = "idle" /\ analysisEnds /\ ~analysisSucceeds)
          => (analysisError' = AnalysisFailedMessage /\ ErrorBannerShown')]_vars

\* C3 witness: a run whose request was issued has failed and the banner is up.
C3_Witness ==
    /\ build = "modal"
    /\ requests = 1 /\ pc = "idle"
    /\ analysisError = AnalysisFailedMessage
    /\ ErrorBannerShown

\* C4 (as claimed): in App.tsx every run that issued its request and did not
\* replace the record raises the failure alert.
C4_InlineFailureAlerts ==
    [][(build = "inline" /\ pc = "calling" /\ pc' = "idle" /\ ~analysisSucceeds)
          => alertShown' = AnalyzeAlert]_vars

\* C5: a selected or dropped file that is not application/pdf leaves
\* selectedFile as it was and raises the alert; an application/pdf file
\* becomes selectedFile.
C5_NonPdfRejected ==
    [][\A f \in Files :
          (handleFileSelect(f) \/ handleDrop(f)) =>
             IF FileType(f) = "application/pdf"
             THEN selectedFile' = f /\ alertShown' = Null
             ELSE selectedFile' = selectedFile /\ alertShown' = PdfAlert]_vars

\* C5 witness: a non-PDF was just rejected while a PDF stays selected.
C5_Witness ==
    /\ alertShown = PdfAlert
    /\ selectedFile \in Pdfs

\* the status labels in the order handleAnalyze sets them
AnalysisSteps == <<"uploading", "reading", "analyzing", "generating">>

IsPrefix(s, t) == Len(s) <= Len(t) /\ s = SubSeq(t, 1, Len(s))

\* the position of a label among AnalysisSteps, 0 for any other value
StepRank(label) ==
    IF \E i \in 1..Len(AnalysisSteps) : AnalysisSteps[i] = label
    THEN CHOOSE i \in 1..Len(AnalysisSteps) : AnalysisSteps[i] = label
    ELSE 0

\* C6: within one run of part_003's handleAnalyze the label is set to
\* 'uploading', 'reading', 'analyzing', 'generating' in that order, starting
\* at 'uploading' and never moving back, and 'generating' has been reached
\* when the request is issued, with a file and with text only.
C6_StatusLabelsInOrder ==
    /\ [](build = "modal" =>
            /\ IsPrefix(stepTrace, AnalysisSteps)
            /\ (pc # "idle" => stepTrace # << >>)
            /\ (stepTrace # << >> => analysisStep = stepTrace[Len(stepTrace)])
            /\ (pc = "calling" => analysisStep = "generating"))
    /\ [][(build = "modal" /\ pc # "idle")
             => StepRank(analysisStep') >= StepRank(analysisStep)]_vars

\* C6 witness: a run with a file has gone through all four labels and its
\* request is in flight.
C6_Witness ==
    /\ build = "modal"
    /\ pc = "calling"
    /\ run.file # Null
    /\ stepTrace = AnalysisSteps

\* C7: encode, call, parse, in that order: a request that carries a file
\* carries its complete base64 data; no request is out before the encoding
\* has ended, and none is issued when the encoding fails; the record is
\* replaced by an analysis only in the step that follows the API's answer.
C7_EncodeCallParseInOrder ==
    /\ [](/\ pc \in {"reading", "delay"} => requests = 0
          /\ pc = "calling" =>
                /\ requests = 1
                /\ run.file # Null =>
                      /\ Len(run.payload) = 2
                      /\ "inlineData" \in DOMAIN run.payload[1]
                      /\ run.payload[1].inlineData.data = ReadAsDataURL(run.file)[2])
    /\ [][(pc = "reading" /\ fileReadSettles(FALSE))
             => (pc' = "idle" /\ requests' = 0)]_vars
    /\ [][(paperData' # paperData /\ isCustom') => (pc = "calling" /\ requests = 1)]_vars

\* C7 witness: the request of a run with a file is in flight, with the
\* encoded file as its first part.
C7_Witness ==
    /\ pc = "calling"
    /\ run.file \in Pdfs
    /\ Len(run.payload) = 2
    /\ run.payload[1].inlineData.data = ReadAsDataURL(run.file)[2]

\* C8: no retry: a run issues at most one request; once its request is out
\* the run only ends (no further request), and while no run is in flight
\* only a click on Visualize starts one.
C8_NoRetry ==
    /\ [](requests <= 1)
    /\ [][pc = "calling"
             => (requests' = requests /\ pc' \in {"calling", "idle"})]_vars
    /\ [][(pc = "idle" /\ (pc' # "idle" \/ requests' # requests))
             => \E sdkThrows \in BOOLEAN : handleAnalyze(sdkThrows)]_vars

\* C8 witness: a run has failed after its one request and nothing is in flight.
C8_Witness ==
    /\ requests = 1
    /\ pc = "idle"
    /\ \/ build = "modal" /\ analysisError = AnalysisFailedMessage
       \/ build = "inline" /\ alertShown = AnalyzeAlert

\* C9: under part_003 paperData.theme is always one of the six PaperTheme
\* values: an accepted response's theme is kept when it is in the enum and
\* becomes 'general' otherwise (also when it is missing).
C9_ThemeAlwaysInEnum ==
    /\ [](build = "modal" =>
            "theme" \in DOMAIN paperData /\ paperData.theme \in PaperTheme)
    /\ [][(build = "modal" /\ pc = "calling" /\ pc' = "idle") =>
          \A o \in ApiOutcomes :
             (Accepted(o) /\ apiSettles(o)) =>
                paperData'.theme =
                   (IF Get(JSONParse(o.text).data, "theme") \in PaperTheme
                    THEN JSONParse(o.text).data.theme ELSE "general")]_vars

\* C9 witness: a response without a theme (and without a summary) was
\* accepted and the record shows 'general'.
C9_Witness ==
    /\ build = "modal"
    /\ isCustom
    /\ "summary" \notin DOMAIN paperData
    /\ paperData.theme = "general"

\* C10 (as claimed): under part_003 the record always has the fields
\* rendering reads: title, summary, authors and concepts.
C10_RecordHasSchemaFields ==
    build = "modal" =>
        {"title", "summary", "authors", "concepts"} \subseteq DOMAIN paperData

----------------------------------------------------------------------------
(* Reset *)

\* the state as one record, to compare whole states
State ==
    [build |-> build, scrolled |-> scrolled, menuOpen |-> menuOpen,
     showInputModal |-> showInputModal, paperData |-> paperData,
     isCustom |-> isCustom, isAnalyzing |-> isAnalyzing,
     analysisStep |-> analysisStep, analysisError |-> analysisError,
     darkMode |-> darkMode, inputText |-> inputText,
     selectedFile |-> selectedFile, isDragOver |-> isDragOver,
     rootDark |-> rootDark, storedTheme |-> storedTheme,
     alertShown |-> alertShown, pc |-> pc, run |-> run,
     stepTrace |-> stepTrace, requests |-> requests,
     searchTerm |-> searchTerm, activeId |-> activeId, discarded |-> discarded]

\* the setter calls of resetToDemo applied to a state s
ResetOf(s) ==
    LET t == [s EXCEPT !.paperData = ALPHA_QUBIT_DATA, !.isCustom = FALSE,
                       !.showInputModal = FALSE, !.alertShown = Null,
                       !.run.reset = (s.pc # "idle" \/ s.run.reset)]
    IN  IF s.build = "inline"
        THEN [t EXCEPT !.selectedFile = Null, !.inputText = ""]
        ELSE t

\* C11: resetToDemo, from any state, sets the record to ALPHA_QUBIT_DATA
\* (theme 'quantum', the DOI url), isCustom to false and closes the dialog;
\* applied to the state it produced it changes nothing.
C11_ResetToDemoIdempotent ==
    [][resetToDemo =>
          /\ paperData' = ALPHA_QUBIT_DATA
          /\ paperData'.theme = "quantum"
          /\ paperData'.url = "https://doi.org/10.1038/s41586-024-08148-8"
          /\ ~isCustom'
          /\ ~showInputModal'
          /\ State' = ResetOf(State)
          /\ ResetOf(ResetOf(State)) = ResetOf(State)]_vars

\* C11 witness: a reset has replaced an analysed record of theme 'biology'
\* by the default; the typed text survives it (part_003).
C11_Witness ==
    /\ build = "modal"
    /\ ~isCustom /\ paperData = ALPHA_QUBIT_DATA /\ ~showInputModal
    /\ requests = 1 /\ pc = "idle"
    /\ analysisError = Null
    /\ inputText # ""

----------------------------------------------------------------------------
(* Page reload: every useState starts over, a pending promise is dropped   *)
(* with the page, localStorage survives                                    *)

\* fault variant: the record is kept across the reload, as if it were stored
reload_restoresRecord ==
    /\ discarded' = discarded
    /\ UNCHANGED <<paperData, isCustom>>
    /\ scrolled' = FALSE
    /\ menuOpen' = FALSE
    /\ showInputModal' = FALSE
    /\ isAnalyzing' = FALSE
    /\ analysisStep' = "uploading"
    /\ analysisError' = Null
    /\ \E prefersDark \in BOOLEAN :
          /\ darkMode' = InitialDarkMode(storedTheme, prefersDark)
          /\ rootDark' = InitialDarkMode(storedTheme, prefersDark)
    /\ inputText' = ""
    /\ selectedFile' = Null
    /\ isDragOver' = FALSE
    /\ alertShown' = Null
    /\ pc' = "idle"
    /\ run' = NoRun
    /\ stepTrace' = << >>
    /\ requests' = 0
    /\ searchTerm' = ""
    /\ activeId' = NoCard
    /\ UNCHANGED <<build, storedTheme>>

\* the browser reloads the page: App and its children mount again
reload ==
    /\ discarded' = (discarded \/ isCustom)
    /\ scrolled' = FALSE
    /\ menuOpen' = FALSE
    /\ showInputModal' = FALSE
    /\ paperData' = ALPHA_QUBIT_DATA
    /\ isCustom' = FALSE
    /\ isAnalyzing' = FALSE
    /\ analysisStep' = "uploading"
    /\ analysisError' = Null
    /\ \E prefersDark \in BOOLEAN :
          /\ darkMode' = InitialDarkMode(storedTheme, prefersDark)
          /\ rootDark' = InitialDarkMode(storedTheme, prefersDark)
    /\ inputText' = ""
    /\ selectedFile' = Null
    /\ isDragOver' = FALSE
    /\ alertShown' = Null
    /\ pc' = "idle"
    /\ run' = NoRun
    /\ stepTrace' = << >>
    /\ requests' = 0
    /\ searchTerm' = ""
    /\ activeId' = NoCard
    /\ UNCHANGED <<build, storedTheme>>

\* a browser session: page lifetimes separated by reloads
NextSession == Next \/ reload

SpecSession == Init /\ [][NextSession]_vars

\* C12: the record lives in memory only: localStorage holds nothing but the
\* 'theme' key, which only toggleDarkMode writes, and a reload leaves the
\* AlphaQubit default with isCustom false whatever was analysed before.
C12_RecordInMemoryOnly ==
    /\ [](storedTheme \in StoredThemes)
    /\ [][storedTheme' # storedTheme => toggleDarkMode]_vars
    /\ [][reload => (paperData' = ALPHA_QUBIT_DATA /\ ~isCustom')]_vars

\* C12 witness: a page that showed an analysed record was reloaded; the
\* fresh page shows the default and kept only the stored theme.
C12_Witness ==
    /\ discarded
    /\ paperData = ALPHA_QUBIT_DATA /\ ~isCustom
    /\ requests = 0 /\ pc = "idle" /\ inputText = ""
    /\ storedTheme = "dark" /\ darkMode

\* the demo state the page is in when it has loaded
DemoState ==
    /\ paperData = ALPHA_QUBIT_DATA
    /\ ~isCustom
    /\ ~showInputModal
    /\ ~isAnalyzing
    /\ analysisError = Null

\* C13: on load the app is in the demo state: the AlphaQubit record,
\* isCustom false, the dialog hidden, no analysis running, no analysis error;
\* on the first load and on every later one.
C13_StartsInDemoState ==
    /\ DemoState
    /\ [][reload => DemoState']_vars

\* C13 witness: the page has just loaded for the first time, with no stored
\* theme and a system that prefers dark.
C13_Witness ==
    /\ DemoState
    /\ ~discarded
    /\ pc = "idle" /\ requests = 0 /\ stepTrace = << >>
    /\ inputText = "" /\ selectedFile = Null
    /\ ~scrolled /\ ~menuOpen
    /\ storedTheme = Null /\ darkMode /\ rootDark

----------------------------------------------------------------------------
(* What the page shows *)

\* the science section: {isCustom ? <ConceptNetwork/> : the three AlphaQubit
\* diagrams}
ScienceSection == IF isCustom THEN "ConceptNetwork" ELSE "AlphaQubitDiagrams"

\* the records handleAnalyze can store, one for each response it accepts
AcceptedRecords ==
    {NewPaperData(JSONParse(o.text).data) : o \in {a \in ApiOutcomes : Accepted(a)}}

\* C14: isCustom false implies the record is the AlphaQubit default; isCustom
\* true implies it is the record stored by the most recent successful
\* analysis (it is one of the records an accepted response yields, and only a
\* successful analysis makes isCustom true or changes the record while it is
\* true); so the AlphaQubit diagrams are shown exactly
\* while the default is displayed and the ConceptNetwork exactly for an
\* analysed record.
C14_IsCustomMatchesRecord ==
    /\ [](/\ ~isCustom => paperData = ALPHA_QUBIT_DATA
          /\ isCustom => (paperData \in AcceptedRecords /\ paperData # ALPHA_QUBIT_DATA)
          /\ ScienceSection = "AlphaQubitDiagrams" <=> paperData = ALPHA_QUBIT_DATA
          /\ ScienceSection = "ConceptNetwork" <=> paperData # ALPHA_QUBIT_DATA
          /\ ScienceSection = "ConceptNetwork" => paperData \in AcceptedRecords)
    /\ [][(isCustom' /\ (~isCustom \/ paperData' # paperData)) => analysisSucceeds]_vars

\* C14 witness: the record of a second paper is displayed with the
\* ConceptNetwork, the dialog open again over it.
C14_Witness ==
    /\ isCustom
    /\ paperData.title = ResponseTitles[2]
    /\ ScienceSection = "ConceptNetwork"
    /\ showInputModal /\ pc = "idle"

----------------------------------------------------------------------------
(* Dark mode *)

\* darkMode, the root's 'dark' class and localStorage 'theme' as one value
Theme == [darkMode |-> darkMode, rootDark |-> rootDark, storedTheme |-> storedTheme]

\* toggleDarkMode applied to such a value
ToggleOf(t) ==
    [darkMode |-> ~t.darkMode,
     rootDark |-> ~t.darkMode,
     storedTheme |-> IF ~t.darkMode THEN "dark" ELSE "light"]

\* C15: toggleDarkMode flips darkMode and leaves the 'dark' class on the root
\* exactly when darkMode is true and 'theme' = 'dark' exactly when darkMode is
\* true, 'light' otherwise; a reload with a stored theme comes back with the
\* same darkMode and class; two toggles restore darkMode and the class, and
\* the stored value once one has been written.
C15_DarkModePersists ==
    /\ [][toggleDarkMode =>
             /\ darkMode' = ~darkMode
             /\ rootDark' = darkMode'
             /\ storedTheme' = (IF darkMode' THEN "dark" ELSE "light")
             /\ Theme' = ToggleOf(Theme)]_vars
    /\ [][(reload /\ storedTheme # Null)
             => (darkMode' = darkMode /\ rootDark' = rootDark)]_vars
    /\ [](/\ rootDark = darkMode
          /\ storedTheme # Null => (storedTheme = "dark") = darkMode
          /\ ToggleOf(ToggleOf(Theme)).darkMode = darkMode
          /\ ToggleOf(ToggleOf(Theme)).rootDark = rootDark
          /\ ToggleOf(ToggleOf(ToggleOf(Theme))).storedTheme = ToggleOf(Theme).storedTheme
          /\ storedTheme # Null => ToggleOf(ToggleOf(Theme)) = Theme)

\* C15 witness: a reloaded page found 'light' stored and shows light mode
\* with the class off, on a system whose preference is not consulted.
C15_Witness ==
    /\ discarded
    /\ storedTheme = "light" /\ ~darkMode /\ ~rootDark
    /\ pc = "idle" /\ requests = 0 /\ ~isCustom

----------------------------------------------------------------------------
(* HeroScene (DynamicScene.tsx) *)

\* the two HeroScene components of the repository that render themed layers:
\* "safe" computes safeTheme first, "direct" tests the theme prop itself
SceneVersions == {"safe", "direct"}

\* the keys of THEME_COLORS
ThemeColorKeys == {"quantum", "ai", "biology", "cosmos", "material", "general"}

\* names every object inherits, for which THEME_COLORS[name] is truthy too
ObjectPrototypeKeys == {"constructor", "toString", "valueOf", "hasOwnProperty"}

\* THEME_COLORS[theme] ? theme : 'general'
SafeTheme(theme) ==
    IF theme \in ThemeColorKeys \cup ObjectPrototypeKeys THEN theme ELSE "general"

\* the operand of the === tests that select the layers
SceneTheme(version, theme) == IF version = "safe" THEN SafeTheme(theme) ELSE theme

\* {t === 'x' && <XLayer/>}: the layer if the test holds, nothing otherwise
LayerIf(cond, layer) == IF cond THEN <<layer>> ELSE << >>

\* the themed layers HeroScene puts in the canvas, in order
HeroSceneLayers(version, theme) ==
    LayerIf(SceneTheme(version, theme) = "quantum", "QuantumLayer")
    \o LayerIf(SceneTheme(version, theme) = "ai", "AILayer")
    \o LayerIf(SceneTheme(version, theme) = "biology", "BiologyLayer")
    \o LayerIf(SceneTheme(version, theme) = "cosmos", "CosmosLayer")
    \o LayerIf(SceneTheme(version, theme) = "material", "MaterialLayer")
    \o LayerIf(SceneTheme(version, theme) = "general", "AILayer")

\* C16 (as claimed): for the theme of the displayed record, in the enum or
\* not, HeroScene renders exactly one layer, the one of that theme, with
\* 'general' and everything outside the enum rendering the AI layer.
C16_HeroSceneOneLayer ==
    LET theme == Get(paperData, "theme")
        claimed == CASE theme = "quantum" -> "QuantumLayer"
                     [] theme = "biology" -> "BiologyLayer"
                     [] theme = "cosmos" -> "CosmosLayer"
                     [] theme = "material" -> "MaterialLayer"
                     [] OTHER -> "AILayer"
    IN  \A version \in SceneVersions :
            HeroSceneLayers(version, theme) = <<claimed>>

----------------------------------------------------------------------------
(* ConceptNetwork (GenericVisualizer.tsx, the version with the search bar) *)

\* how many concepts an analysed paper has at most
MaxConcepts == 2

\* concepts an analysis may return
ConceptPool ==
    { [title |-> "Surface Code", description |-> "Stabilizer qubits measure parity", type |-> "structure"],
      [title |-> "Transformer", description |-> "A recurrent decoder reads the CODE history", type |-> "process"],
      [title |-> "Noise", description |-> "Errors accumulate", type |-> "abstract"],
      [title |-> "DECODER", description |-> "Maps syndromes to errors", type |-> "process"] }

\* the lists of distinct concepts of length n
RECURSIVE ListsOfLength(_)
ListsOfLength(n) ==
    IF n = 0 THEN {<< >>}
    ELSE {Append(l, c) : l \in ListsOfLength(n - 1), c \in ConceptPool}
         \ {Append(l, l[i]) : l \in ListsOfLength(n - 1), i \in 1..(n - 1)}

ConceptLists == UNION {ListsOfLength(n) : n \in 0..MaxConcepts}

\* what the user types into the search bar
SearchTerms == {"", "code", "CODE", "Transformer", "er", " ", "qubit decoder"}

UpperCase == "ABCDEFGHIJKLMNOPQRSTUVWXYZ"
LowerCase == "abcdefghijklmnopqrstuvwxyz"

\* toLowerCase of one character
ToLowerChar(c) ==
    IF \E i \in 1..Len(UpperCase) : SubSeq(UpperCase, i, i) = c
    THEN LET i == CHOOSE i \in 1..Len(UpperCase) : SubSeq(UpperCase, i, i) = c
         IN  SubSeq(LowerCase, i, i)
    ELSE c

\* String.prototype.toLowerCase
RECURSIVE ToLowerCase(_)
ToLowerCase(s) ==
    IF Len(s) = 0 THEN ""
    ELSE ToLowerChar(SubSeq(s, 1, 1)) \o ToLowerCase(SubSeq(s, 2, Len(s)))

\* String.prototype.includes
Includes(s, t) ==
    \E i \in 1..(Len(s) - Len(t) + 1) : SubSeq(s, i, i + Len(t) - 1) = t

\* fault variant: the comparison without toLowerCase
FilteredConcepts_caseSensitive(concepts, term) ==
    IF ~Truthy(term) THEN concepts
    ELSE SelectSeq(concepts,
             LAMBDA c : \/ Includes(c.title, term)
                        \/ Includes(c.description, term))

\* filteredConcepts of the useMemo
FilteredConcepts(concepts, term) ==
    IF ~Truthy(term) THEN concepts
    ELSE SelectSeq(concepts,
             LAMBDA c : \/ Includes(ToLowerCase(c.title), ToLowerCase(term))
                        \/ Includes(ToLowerCase(c.description), ToLowerCase(term)))

\* the cards in the grid
ShownConcepts == FilteredConcepts(paperData.concepts, searchTerm)

\* {filteredConcepts.length === 0 && ...}
NoConceptsPanel == Len(ShownConcepts) = 0

\* every variable of App, InputModal and the session
outsideNetwork ==
    <<build, scrolled, menuOpen, showInputModal, paperData, isCustom,
      isAnalyzing, analysisStep, analysisError, darkMode, inputText,
      selectedFile, isDragOver, rootDark, storedTheme, alertShown, pc, run,
      stepTrace, requests, discarded>>

\* the search input's onChange
setSearchTerm(term) ==
    /\ isCustom
    /\ searchTerm' = term
    /\ UNCHANGED <<activeId, outsideNetwork>>

\* the X in the search bar, rendered while searchTerm is non-empty, and
\* "Clear Search" in the panel
clearSearch ==
    /\ isCustom
    /\ Truthy(searchTerm) \/ NoConceptsPanel
    /\ searchTerm' = ""
    /\ UNCHANGED <<activeId, outsideNetwork>>

\* the positions of the grid shown whose card is drawn expanded (isActive)
IsActive(shown, active) == {idx \in 0..(Len(shown) - 1) : active = <<idx>>}

ExpandedCards == IsActive(ShownConcepts, activeId)

\* the concept on the expanded card, NoCard when no card is expanded
ActiveConcept(shown, active) ==
    IF IsActive(shown, active) = {} THEN NoCard ELSE <<shown[active[1] + 1]>>

ExpandedConcept == ActiveConcept(ShownConcepts, activeId)

\* fault variant: while a card is expanded a click on any card collapses it
clickCard_collapsesFirst(idx) ==
    /\ isCustom
    /\ idx \in 0..(Len(ShownConcepts) - 1)
    /\ activeId' = IF activeId = NoCard THEN <<idx>> ELSE NoCard
    /\ UNCHANGED <<searchTerm, outsideNetwork>>

\* a click on the card at position idx of the grid
clickCard(idx) ==
    /\ isCustom
    /\ idx \in 0..(Len(ShownConcepts) - 1)
    /\ activeId' = IF activeId = <<idx>> THEN NoCard ELSE <<idx>>
    /\ UNCHANGED <<searchTerm, outsideNetwork>>

\* ConceptNetwork mounted for an analysed paper with some list of concepts
InitNetwork ==
    /\ build \in {"inline", "modal"}
    /\ scrolled = FALSE
    /\ menuOpen = FALSE
    /\ showInputModal = FALSE
    /\ paperData \in {Spread(NewPaperData(Answer(1, "ai", {})), [concepts |-> l]) :
                         l \in ConceptLists}
    /\ isCustom = TRUE
    /\ isAnalyzing = FALSE
    /\ analysisStep = "generating"
    /\ analysisError = Null
    /\ storedTheme = Null
    /\ darkMode = FALSE
    /\ rootDark = FALSE
    /\ inputText = ""
    /\ selectedFile = Null
    /\ isDragOver = FALSE
    /\ alertShown = Null
    /\ pc = "idle"
    /\ run = NoRun
    /\ stepTrace = << >>
    /\ requests = 1
    /\ searchTerm = ""
    /\ activeId = NoCard
    /\ discarded = FALSE

NextNetwork ==
    \/ \E term \in SearchTerms : setSearchTerm(term)
    \/ clearSearch
    \/ \E idx \in 0..(MaxConcepts - 1) : clickCard(idx)

SpecNetwork == InitNetwork /\ [][NextNetwork]_vars

\* C17: the grid shows exactly the concepts whose title or description
\* contains the search term, letters compared without regard to case, in
\* their original order; an empty term shows all concepts, clearing the search
\* restores the full list, and the 'No concepts found' panel is shown exactly
\* when no card is.
C17_FilterShowsMatches ==
    /\ [](LET concepts == paperData.concepts
              SameLetter(a, b) ==
                  \/ a = b
                  \/ \E i \in 1..Len(UpperCase) :
                        {a, b} = {SubSeq(UpperCase, i, i), SubSeq(LowerCase, i, i)}
              Contains(s, t) ==
                  \E i \in 0..(Len(s) - Len(t)) :
                     \A k \in 1..Len(t) :
                        SameLetter(SubSeq(s, i + k, i + k), SubSeq(t, k, k))
              matching == {i \in 1..Len(concepts) :
                              \/ Contains(concepts[i].title, searchTerm)
                              \/ Contains(concepts[i].description, searchTerm)}
              Nth(k) == CHOOSE i \in matching :
                            Cardinality({j \in matching : j <= i}) = k
          IN  /\ Len(ShownConcepts) = Cardinality(matching)
              /\ \A k \in 1..Len(ShownConcepts) : ShownConcepts[k] = concepts[Nth(k)]
              /\ searchTerm = "" => ShownConcepts = concepts
              /\ NoConceptsPanel <=> matching = {})
    /\ [][clearSearch => ShownConcepts' = paperData.concepts]_vars

\* C17 witness: the term 'CODE' keeps the second and drops the first of two
\* concepts: it matches 'code' in a description, in neither title.
C17_Witness ==
    /\ searchTerm = "CODE"
    /\ Len(paperData.concepts) = 2
    /\ paperData.concepts[1].title = "Noise"
    /\ ShownConcepts = <<paperData.concepts[2]>>
    /\ ~NoConceptsPanel

----------------------------------------------------------------------------
(* Concurrency of analyses *)

\* C18: in the App that uses InputModal at most one analysis is in flight:
\* while isAnalyzing the dialog is up and shows the loading view only, no
\* click can reach handleAnalyze, resetToDemo or onClose, and showInputModal
\* stays true (and the record untouched) until the running analysis ends.
C18_OneAnalysisInFlight ==
    /\ []((build = "modal" /\ isAnalyzing) =>
             /\ pc # "idle"
             /\ showInputModal
             /\ InputModalView = "loading"
             /\ ~ENABLED (\E sdkThrows \in BOOLEAN : handleAnalyze(sdkThrows))
             /\ ~ENABLED resetToDemo
             /\ ~ENABLED onClose)
    /\ [][(build = "modal" /\ isAnalyzing /\ isAnalyzing')
             => (showInputModal' /\ paperData' = paperData /\ isCustom' = isCustom
                 /\ run'.text = run.text /\ run'.file = run.file)]_vars

\* C18 witness: over an analysed record a second analysis, of a file, has
\* its request in flight and the dialog shows the loading view.
C18_Witness ==
    /\ build = "modal"
    /\ isAnalyzing /\ pc = "calling" /\ run.file # Null
    /\ isCustom
    /\ InputModalView = "loading"

\* C19 (as claimed): in App.tsx a reset while an analysis is in flight does
\* not cancel the analysis, and the analysis does not undo the reset: from
\* the reset until that analysis has ended, its last step included, the
\* AlphaQubit default stays displayed with isCustom false.
C19_ResetNotUndone ==
    /\ [][(build = "inline" /\ pc # "idle" /\ resetToDemo)
             => (pc' = pc /\ isAnalyzing' /\ requests' = requests)]_vars
    /\ [][(build = "inline" /\ run.reset)
             => (paperData' = ALPHA_QUBIT_DATA /\ ~isCustom')]_vars

----------------------------------------------------------------------------
(* Progress of an analysis *)

\* every promise handleAnalyze awaits settles: the FileReader fires onload or
\* onerror, the 800 ms timer fires, generateContent resolves or rejects
SpecLive ==
    /\ Spec
    /\ WF_vars(\E loaded \in BOOLEAN : fileReadSettles(loaded))
    /\ WF_vars(delayElapsed)
    /\ WF_vars(\E o \in ApiOutcomes : apiSettles(o))

\* C20: isAnalyzing is true exactly while a run of handleAnalyze is
\* suspended at one of its awaits, and, the awaited promises settling, every
\* run ends and leaves isAnalyzing false, by success or by any failure.
C20_AnalysisEnds ==
    /\ [](isAnalyzing <=> pc # "idle")
    /\ [][(pc # "idle" /\ pc' = "idle") => ~isAnalyzing']_vars
    /\ isAnalyzing ~> ~isAnalyzing

\* C20 witness: a run with a file ended at the failed read, before any
\* request, and isAnalyzing is false again.
C20_Witness ==
    /\ build = "modal"
    /\ ~isAnalyzing /\ pc = "idle"
    /\ stepTrace = <<"uploading", "reading">>
    /\ requests = 0
    /\ analysisError = AnalysisFailedMessage

----------------------------------------------------------------------------
(* The dialog after an analysis *)

\* C21: analysisError is cleared when an analysis starts and set only by a
\* failed one: it is null while isAnalyzing, null after a successful run,
\* becomes non-null only at the end of a failed run and goes back to null
\* only at the start of the next one.
C21_ErrorOnlyAfterFailure ==
    /\ [](isAnalyzing => analysisError = Null)
    /\ [][(pc = "idle" /\ pc' # "idle") => analysisError' = Null]_vars
    /\ [][(pc = "calling" /\ pc' = "idle" /\ analysisError' # Null)
             => ~analysisSucceeds]_vars
    /\ [][(analysisError = Null /\ analysisError' # Null)
             => (build = "modal" /\ analysisEnds /\ ~analysisSucceeds)]_vars
    /\ [][(analysisError # Null /\ analysisError' = Null)
             => \E sdkThrows \in BOOLEAN : handleAnalyze(sdkThrows)]_vars

\* C21 witness: over the record of an earlier success the latest run has
\* failed; the error is set and the dialog was closed on it afterwards.
C21_Witness ==
    /\ build = "modal"
    /\ isCustom
    /\ pc = "idle" /\ requests = 1
    /\ analysisError = AnalysisFailedMessage
    /\ ~showInputModal

\* C22: at the end of an analysis of part_003 the dialog closes exactly when
\* the analysis succeeded; after a failure it is open on the input form with
\* the error message, the typed text and the selected file are the ones that
\* were submitted, and Visualize can be clicked again.
C22_DialogClosesOnlyOnSuccess ==
    [][(build = "modal" /\ pc' = "idle" /\ analysisEnds) =>
          /\ ~showInputModal' <=> analysisSucceeds
          /\ showInputModal' =>
                /\ InputModalView' = "form"
                /\ ErrorBannerShown'
                /\ analysisError' = AnalysisFailedMessage
                /\ inputText' = inputText /\ selectedFile' = selectedFile
                /\ pc # "idle" => (inputText' = run.text /\ selectedFile' = run.file)
                /\ ~VisualizeDisabled']_vars

\* C22 witness: an analysis of a file with notes has failed after its
\* request; the form is back with the error, the file and the notes.
C22_Witness ==
    /\ build = "modal"
    /\ pc = "idle" /\ requests = 1
    /\ ErrorBannerShown
    /\ selectedFile \in Pdfs
    /\ Trim(inputText) # ""

\* C23 (as claimed): a request is in flight only for a run that was given
\* content: a file, or a text that is not empty and not only whitespace.
C23_NoRequestWithoutContent ==
    pc = "calling" => (run.file # Null \/ Trim(run.text) # "")

----------------------------------------------------------------------------
(* The request payload, for texts around the 30000-character cut *)

\* s repeated n times
RECURSIVE Repeat(_, _)
Repeat(s, n) ==
    IF n = 0 THEN ""
    ELSE IF n % 2 = 0 THEN LET half == Repeat(s, n \div 2) IN half \o half
    ELSE s \o Repeat(s, n - 1)

\* pasted texts one character short of the limit, at it and one beyond it
LongTexts == {Repeat("x", PaperTextLimit - 1) \o tail : tail \in {"", "y", "yz"}}

\* the form is open and filled in: some text, a PDF or none
InitPayload ==
    /\ build \in {"inline", "modal"}
    /\ scrolled = FALSE
    /\ menuOpen = FALSE
    /\ showInputModal = TRUE
    /\ paperData = ALPHA_QUBIT_DATA
    /\ isCustom = FALSE
    /\ isAnalyzing = FALSE
    /\ analysisStep = "uploading"
    /\ analysisError = Null
    /\ storedTheme = Null
    /\ darkMode = FALSE
    /\ rootDark = FALSE
    /\ inputText \in Texts \cup LongTexts
    /\ selectedFile \in Pdfs \cup {Null}
    /\ isDragOver = FALSE
    /\ alertShown = Null
    /\ pc = "idle"
    /\ run = NoRun
    /\ stepTrace = << >>
    /\ requests = 0
    /\ searchTerm = ""
    /\ activeId = NoCard
    /\ discarded = FALSE

\* the steps of handleAnalyze
NextPayload ==
    \/ \E sdkThrows \in BOOLEAN : handleAnalyze(sdkThrows)
    \/ \E loaded \in BOOLEAN : fileReadSettles(loaded)
    \/ delayElapsed
    \/ \E o \in ApiOutcomes : apiSettles(o)

SpecPayload == InitPayload /\ [][NextPayload]_vars

\* C24: once built, the payload of a run with a file has exactly two parts,
\* the inline PDF data and then the prompt followed by the user's text in
\* full; that of a run without a file has exactly one text part, the prompt
\* followed by the first 30000 characters of the text, all of it when it is
\* not longer.
C24_PayloadShape ==
    (pc \in {"delay", "calling"}) =>
        IF run.file # Null
        THEN /\ Len(run.payload) = 2
             /\ run.payload[1] = [inlineData |-> [mimeType |-> "application/pdf",
                                                  data |-> ReadAsDataURL(run.file)[2]]]
             /\ DOMAIN run.payload[2] = {"text"}
             /\ run.payload[2].text = PromptInstructions \o NotesHeading \o run.text
        ELSE /\ Len(run.payload) = 1
             /\ DOMAIN run.payload[1] = {"text"}
             /\ LET sent == run.payload[1].text
                    head == PromptInstructions \o TextHeading
                    kept == SubSeq(sent, Len(head) + 1, Len(sent))
                IN  /\ SubSeq(sent, 1, Len(head)) = head
                    /\ Len(kept) = (IF Len(run.text) > 30000 THEN 30000 ELSE Len(run.text))
                    /\ kept \o SubSeq(run.text, Len(kept) + 1, Len(run.text)) = run.text

\* C24 witness: the request of a text-only run is in flight; the text was
\* one character over the limit and its last character was cut off.
C24_Witness ==
    /\ pc = "calling"
    /\ run.file = Null
    /\ Len(run.text) = PaperTextLimit + 1
    /\ Len(run.payload[1].text) = Len(PromptInstructions \o TextHeading) + PaperTextLimit

----------------------------------------------------------------------------
(* The expanded card of ConceptNetwork *)

\* C25: no card is expanded when ConceptNetwork mounts and at most one is at
\* any time; a click on a collapsed card leaves exactly that card expanded,
\* a click on the expanded card leaves none.
C25_OneCardExpanded ==
    /\ ExpandedCards = {}
    /\ [](Cardinality(ExpandedCards) <= 1)
    /\ [][\A idx \in 0..(MaxConcepts - 1) :
             clickCard(idx) =>
                IsActive(FilteredConcepts(paperData'.concepts, searchTerm'), activeId')
                   = (IF idx \in ExpandedCards THEN {} ELSE {idx})]_vars

\* C25 witness: the second of two cards is the expanded one.
C25_Witness ==
    /\ Len(ShownConcepts) = 2
    /\ ExpandedCards = {1}
    /\ searchTerm = ""

\* C26 (as claimed): when the search term changes while a card is expanded,
\* the card expanded afterwards, if there is one, shows the same concept.
C26_FilterKeepsExpanded ==
    [][LET after == ActiveConcept(FilteredConcepts(paperData'.concepts, searchTerm'),
                                  activeId')
       IN  (searchTerm' # searchTerm /\ ExpandedConcept # NoCard /\ after # NoCard)
              => after = ExpandedConcept]_vars

----------------------------------------------------------------------------
(* The theme on load *)

\* C28: on load, at mount and after every reload, darkMode is true exactly
\* when 'dark' is stored, or nothing is stored and the system prefers dark; a
\* stored 'light' gives false whatever the preference; the root's 'dark'
\* class matches darkMode.
C28_ThemeOnLoad ==
    /\ \E prefersDark \in BOOLEAN :
          /\ darkMode <=> (storedTheme = "dark" \/ (storedTheme = Null /\ prefersDark))
          /\ rootDark <=> darkMode
    /\ [][reload =>
             \E prefersDark \in BOOLEAN :
                /\ darkMode' <=> (storedTheme' = "dark"
                                     \/ (storedTheme' = Null /\ prefersDark))
                /\ rootDark' <=> darkMode']_vars
    /\ [](\A savedTheme \in StoredThemes, prefersDark \in BOOLEAN :
             /\ InitialDarkMode(savedTheme, prefersDark)
                   <=> (savedTheme = "dark" \/ (savedTheme = Null /\ prefersDark))
             /\ ~InitialDarkMode("light", prefersDark))

\* C28 witness: the page was reloaded with 'light' stored and came back light.
C28_Witness ==
    /\ discarded
    /\ storedTheme = "light"
    /\ ~darkMode
    /\ ~rootDark
    /\ pc = "idle"
    /\ requests = 0

----------------------------------------------------------------------------
(* The link to the original paper *)

\* the <a href={paperData.url}> of the navigation bar is rendered
PaperLinkShown ==
    IF build = "modal"
    THEN Truthy(Get(paperData, "url")) /\ Get(paperData, "url") # "#"
    ELSE Get(paperData, "url") # "#"

\* C27: the link is shown exactly when the record's url is non-empty and not
\* '#'; every analysed record has the url '#'; the link is shown whenever the
\* AlphaQubit record is displayed and never while an analysed one is.
C27_PaperLinkForDemoOnly ==
    /\ PaperLinkShown <=> (Get(paperData, "url") \notin {Undefined, Null, "", "#"})
    /\ paperData # ALPHA_QUBIT_DATA => Get(paperData, "url") = "#"
    /\ paperData = ALPHA_QUBIT_DATA => PaperLinkShown
    /\ paperData # ALPHA_QUBIT_DATA => ~PaperLinkShown
    /\ isCustom => ~PaperLinkShown

\* C27 witness: an analysed paper is displayed, without the link.
C27_Witness ==
    /\ isCustom
    /\ paperData # ALPHA_QUBIT_DATA
    /\ ~PaperLinkShown
    /\ pc = "idle"
    /\ ~showInputModal

----------------------------------------------------------------------------
(* The progress display of the loading view *)

\* the ids of the steps array, in order
steps == <<"uploading", "reading", "analyzing", "generating">>

\* status labels: the four ids and two strings that are none of them
StatusLabels == {steps[i] : i \in 1..Len(steps)} \cup {"", "done"}

\* steps.findIndex(s => s.id === label): the 0-based position, -1 when absent
FindIndex(label) ==
    IF \E i \in 1..Len(steps) : steps[i] = label
    THEN (CHOOSE i \in 1..Len(steps) : steps[i] = label) - 1
    ELSE -1

\* fault variant: a whole step is counted for the current one, (idx + 1)
ProgressTenths_wholeStep(label) ==
    LET raw == ((2 * FindIndex(label) + 2) * 1000) \div (2 * Len(steps))
    IN  IF raw < 50 THEN 50 ELSE raw

\* progressPercentage in tenths of a percent:
\* Math.max(5, ((currentStepIdx + 0.5) / steps.length) * 100); every value of
\* (2 idx + 1) * 1000 / 8 is a whole number of tenths, and exact in a double
ProgressTenths(label) ==
    LET raw == ((2 * FindIndex(label) + 1) * 1000) \div (2 * Len(steps))
    IN  IF raw < 50 THEN 50 ELSE raw

\* the positions drawn with the check mark: isComplete = idx < currentStepIdx
CompleteSteps(label) == {idx \in 0..(Len(steps) - 1) : idx < FindIndex(label)}

\* the positions drawn with the spinner: isCurrent = idx === currentStepIdx
CurrentSteps(label) == {idx \in 0..(Len(steps) - 1) : idx = FindIndex(label)}

\* C29: the progress is 12.5, 37.5, 62.5, 87.5 percent for the four steps in
\* order, max(5, (i + 0.5) / 4 * 100); never below 5, never 100 or more; the
\* steps before the current one are complete and exactly one is current; a
\* label that is none of the four gives 5 percent and no mark; along one
\* analysis every change of the label raises the progress.
C29_ProgressOfLoadingView ==
    /\ [](\A label \in StatusLabels :
             LET i == FindIndex(label)
                 P == ProgressTenths(label)
             IN  /\ P >= 50
                 /\ P < 1000
                 /\ i >= 0 => /\ P = 125 + 250 * i
                              /\ CompleteSteps(label) = 0..(i - 1)
                              /\ CurrentSteps(label) = {i}
                 /\ i < 0 => /\ P = 50
                             /\ CompleteSteps(label) = {}
                             /\ CurrentSteps(label) = {})
    /\ [](<<ProgressTenths("uploading"), ProgressTenths("reading"),
            ProgressTenths("analyzing"), ProgressTenths("generating")>>
             = <<125, 375, 625, 875>>)
    /\ []((build = "modal" /\ InputModalView = "loading") =>
             /\ Cardinality(CurrentSteps(analysisStep)) = 1
             /\ ProgressTenths(analysisStep) \in {125, 375, 625, 875})
    /\ [][(build = "modal" /\ isAnalyzing /\ isAnalyzing' /\ analysisStep' # analysisStep)
             => ProgressTenths(analysisStep') > ProgressTenths(analysisStep)]_vars

\* C29 witness: the loading view at its last step, 87.5 percent, three steps
\* complete, while the request is in flight.
C29_Witness ==
    /\ build = "modal"
    /\ InputModalView = "loading"
    /\ pc = "calling"
    /\ analysisStep = "generating"
    /\ ProgressTenths(analysisStep) = 875
    /\ CompleteSteps(analysisStep) = {0, 1, 2}

====
